---- MODULE Spec2Model ----
(***************************************************************************)
(* HighLevelZmqClient: a blocking command/response client over one ZeroMQ  *)
(* DEALER socket.  One client object, driven by serialized calls, plus the *)
(* external server that answers the requests it reads from the socket.     *)
(*                                                                         *)
(* A call that reaches socket_.recv blocks there: such a call is modelled  *)
(* in two steps, the entry (up to and including socket_.send) and the      *)
(* return from recv (RecvReply, RecvFail) that runs the rest of the call.  *)
(***************************************************************************)
EXTENDS Integers, Sequences, FiniteSets, TLC

VARIABLES
    client_type_,   \* ClientType, fixed at construction
    identity,       \* the ZMQ_IDENTITY of socket_, a string (sequence of characters)
    ctime,          \* steady_clock::now() read by the constructor
    connected_,     \* bool connected_
    conns,          \* number of transport connections socket_ holds to tcp_endpoint_
    pc,             \* "idle": no call in progress; "recv": a call blocks in socket_.recv;
                    \* "gone": the client was destroyed
    cur,            \* the call in progress (NoCur when idle)
    toServer,       \* ids of the requests sent and not yet answered by the server
    toClient,       \* reply frames queued on socket_, each tagged with the request it answers
    nextId,         \* sequence number of the next request frame sent
    handshake,      \* what the latest register round trip read: "none", "pending", "ok", "failed"
    last            \* outcome of the most recently completed call

vars == <<client_type_, identity, ctime, connected_, conns, pc, cur, toServer, toClient, nextId, handshake, last>>

\* The socket and the frames in flight.
wire == <<conns, toServer, toClient, nextId>>

----------------------------------------------------------------------------
\* Bounds of the model.

\* Request frames sent over the life of the client.
MaxSends == 3

\* Calls of socket_.connect that succeed over the life of the client.
MaxConnects == 2

\* 2^16: a uint32_t is held as its two 16-bit halves.
Half == 65536

----------------------------------------------------------------------------
\* nlohmann::json values.

JNull == [t |-> "null"]

JBool(b) == [t |-> "bool", b |-> b]

JNum(n) == [t |-> "num", n |-> n]

\* A floating point number, in tenths.
JFlt(x) == [t |-> "flt", x |-> x]

JStr(s) == [t |-> "str", s |-> s]

JArr(a) == [t |-> "arr", a |-> a]

JObj(o) == [t |-> "obj", o |-> o]

\* Values a call hands back to its caller.
RVoid == [t |-> "void"]

RVec(a) == [t |-> "vec", a |-> a]

Ret(v) == [st |-> "ret", val |-> v]

Throw(what) == [st |-> "throw", val |-> JStr(what)]

\* json::operator[](key) = v on a null or object value.
SetKey(j, k, v) ==
    IF j.t = "obj"
    THEN JObj([x \in DOMAIN j.o \cup {k} |-> IF x = k THEN v ELSE j.o[x]])
    ELSE JObj(k :> v)

\* json::contains(key)
Contains(j, k) == j.t = "obj" /\ k \in DOMAIN j.o

\* json::value(key, bool default)
ValueBool(j, k, d) ==
    IF j.t # "obj" THEN Throw("type_error.306")
    ELSE IF k \notin DOMAIN j.o THEN Ret(JBool(d))
    ELSE IF j.o[k].t = "bool" THEN Ret(JBool(j.o[k].b))
    ELSE Throw("type_error.302")

\* Truncation of a float (in tenths) toward zero.
Trunc(x) == IF x >= 0 THEN x \div 10 ELSE -((-x) \div 10)

\* The conversion of an int n to uint32_t: n mod 2^32, as its two halves.
RU32(n) ==
    LET m == IF n >= 0 THEN n ELSE n + 2147483647 + 1
    IN  [t |-> "u32", hi |-> (m \div Half) + (IF n < 0 THEN 32768 ELSE 0), lo |-> m % Half]

\* json::value(key, int default), returned as uint32_t
ValueU32(j, k, d) ==
    IF j.t # "obj" THEN Throw("type_error.306")
    ELSE IF k \notin DOMAIN j.o THEN Ret(RU32(d))
    ELSE IF j.o[k].t = "num" THEN Ret(RU32(j.o[k].n))
    ELSE IF j.o[k].t = "flt" THEN Ret(RU32(Trunc(j.o[k].x)))
    ELSE IF j.o[k].t = "bool" THEN Ret(RU32(IF j.o[k].b THEN 1 ELSE 0))
    ELSE Throw("type_error.302")

\* json::value(key, const char* default)
ValueStr(j, k, d) ==
    IF j.t # "obj" THEN Throw("type_error.306")
    ELSE IF k \notin DOMAIN j.o THEN Ret(JStr(d))
    ELSE IF j.o[k].t = "str" THEN Ret(JStr(j.o[k].s))
    ELSE Throw("type_error.302")

\* One element of a std::vector<float> read from a json number.
ToFloat(e) == IF e.t = "num" THEN e.n * 10 ELSE IF e.t = "flt" THEN e.x ELSE IF e.b THEN 10 ELSE 0

\* json::get<std::vector<float>>()
GetVecFloat(j) ==
    IF j.t # "arr" THEN Throw("type_error.302")
    ELSE IF \E i \in DOMAIN j.a : j.a[i].t \notin {"num", "flt", "bool"} THEN Throw("type_error.302")
    ELSE Ret(RVec([i \in DOMAIN j.a |-> ToFloat(j.a[i])]))

\* if (response.contains("values")) return response["values"].get<...>(); return default;
ValuesOr(j, d) == IF Contains(j, "values") THEN GetVecFloat(j.o["values"]) ELSE Ret(RVec(d))

----------------------------------------------------------------------------
\* Frames.  A frame is a byte string; it either is the text of a json document
\* or is not.

\* json::dump
Dump(j) == [valid |-> TRUE, doc |-> j]

Garbage == [valid |-> FALSE, doc |-> JNull]

\* json::parse: the document, or a parse_error
Parse(bytes) == IF bytes.valid THEN Ret(bytes.doc) ELSE Throw("parse_error.101")

\* Reply bodies the server may send.
ReplyBodies ==
    { Garbage,
      Dump(JArr(<<>>)),
      Dump(JObj([message |-> JStr("ok")])),
      Dump(JObj([success |-> JBool(TRUE)])),
      Dump(JObj([success |-> JBool(FALSE)])),
      Dump(JObj([success |-> JBool(TRUE), result |-> JNum(2)])),
      Dump(JObj([success |-> JBool(FALSE), result |-> JNum(5), value |-> JNum(5)])),
      Dump(JObj([success |-> JBool(TRUE), value |-> JNum(87)])),
      Dump(JObj([success |-> JBool(TRUE), mode |-> JStr("manual")])),
      Dump(JObj([success |-> JBool(TRUE), connected |-> JBool(TRUE)])),
      Dump(JObj([success |-> JBool(TRUE), values |-> JArr(<<JNum(1), JNum(2), JNum(3)>>)])),
      Dump(JObj([success |-> JBool(TRUE), values |-> JArr(<<JNum(1), JNum(2), JNum(3), JNum(4)>>)])),
      Dump(JObj([success |-> JNum(1), result |-> JStr("ok"), value |-> JNull,
                 mode |-> JNum(3), connected |-> JStr("yes"), values |-> JStr("none")])) }

----------------------------------------------------------------------------
\* Envelopes that sendRequest synthesizes.

NotConnectedEnv ==
    SetKey(SetKey(JNull, "success", JBool(FALSE)), "message", JStr("Not connected to service"))

RequestFailedEnv ==
    SetKey(SetKey(JNull, "success", JBool(FALSE)), "message", JStr("Request failed"))

\* sendRequest was not called.
NoEnv == [t |-> "none"]

\* No frame was read.
NoBody == [valid |-> FALSE, doc |-> [t |-> "none"]]

\* The request is built with a "params" member that is null.
Cmd_nullParams(name) == JObj([command |-> JStr(name), params |-> JNull])

\* request["command"] = name
Cmd(name) == SetKey(JNull, "command", JStr(name))

\* request["params"][k] = v
Param(req, k, v) ==
    SetKey(req, "params", SetKey(IF Contains(req, "params") THEN req.o["params"] ELSE JNull, k, v))

----------------------------------------------------------------------------
\* The operations and what each reads from the reply.

SuccessOps == {"sendHeartbeat", "setMode", "initRobot", "deinitRobot"}

ResultOps ==
    {"standUp", "lieDown", "passive", "move", "jump", "frontJump", "backflip",
     "attitudeControl", "shakeHand", "twoLegStand"}

ValueOps == {"getCurrentCtrlmode", "getBatteryPower"}

TripleOps ==
    {"getRPY", "getBodyAcc", "getBodyGyro", "getPosition", "getWorldVelocity", "getBodyVelocity"}

LegOps ==
    {"getLegAbadJoint", "getLegHipJoint", "getLegKneeJoint",
     "getLegAbadJointVel", "getLegHipJointVel", "getLegKneeJointVel",
     "getLegAbadJointTorque", "getLegHipJointTorque", "getLegKneeJointTorque"}

VectorOps == {"getQuaternion"} \cup TripleOps \cup LegOps

FacadeOps ==
    SuccessOps \cup {"getCurrentMode", "checkConnect", "cancelTwoLegStand"}
        \cup ResultOps \cup ValueOps \cup VectorOps

\* The joint queries given the default of the triples.
DefaultVec_triple(op) == IF op = "getQuaternion" THEN <<0, 0, 0, 10>> ELSE <<0, 0, 0>>

\* The vector a query returns when the reply has no "values" (floats in tenths).
DefaultVec(op) ==
    IF op = "getQuaternion" THEN <<0, 0, 0, 10>>
    ELSE IF op \in TripleOps THEN <<0, 0, 0>>
    ELSE <<0, 0, 0, 0>>

\* The return statement of each facade method, applied to sendRequest's result.
Decode(op, response) ==
    IF op \in SuccessOps THEN ValueBool(response, "success", FALSE)
    ELSE IF op = "checkConnect" THEN ValueBool(response, "connected", FALSE)
    ELSE IF op = "getCurrentMode" THEN ValueStr(response, "mode", "auto")
    ELSE IF op \in ResultOps THEN ValueU32(response, "result", 0)
    ELSE IF op \in ValueOps THEN ValueU32(response, "value", 0)
    ELSE IF op \in VectorOps THEN ValuesOr(response, DefaultVec(op))
    ELSE Ret(RVoid)

----------------------------------------------------------------------------
\* Calls.

NoArgs == [none |-> TRUE]

NoCur ==
    [op |-> "none", args |-> NoArgs, connBefore |-> FALSE, req |-> JNull,
     sends |-> 0, recvs |-> 0, id |-> 0]

\* A call of op as it starts: nothing sent, nothing received.
NewCall(op, args, req) ==
    [op |-> op, args |-> args, connBefore |-> connected_, req |-> req,
     sends |-> 0, recvs |-> 0, id |-> 0]

\* The record of a completed call c: r is what the caller got (a value or an
\* exception), env what sendRequest returned, re the request that the frame
\* read by the call answers (0: no frame read), body that frame.
Result(c, r, env, re, body) ==
    [op |-> c.op, args |-> c.args, connBefore |-> c.connBefore, req |-> c.req,
     sends |-> c.sends, recvs |-> c.recvs, id |-> c.id,
     st |-> r.st, val |-> r.val, env |-> env, re |-> re, body |-> body]

NoCall == Result(NoCur, [st |-> "none", val |-> JNull], NoEnv, 0, NoBody)

\* The reply carries success = true.
SuccessTrue(env) == Contains(env, "success") /\ env.o["success"] = JBool(TRUE)

\* connect, lines 47-55: from the return of sendRequest(register_request).
\* r is what connect hands to its caller, conn the value of connected_ it leaves.
\* The json exception of response.value is not a zmq::error_t: it leaves connect.
ConnectTail(response) ==
    LET ok == ValueBool(response, "success", FALSE)
    IN  IF ok.st = "throw" THEN [r |-> ok, conn |-> TRUE]
        ELSE IF ~ok.val.b THEN [r |-> Ret(JBool(FALSE)), conn |-> FALSE]
        ELSE [r |-> Ret(JBool(TRUE)), conn |-> TRUE]

\* A facade method that gives the session up when its call did not succeed.
After_dropOnFailure(c, env, conn) ==
    IF c.op = "connect" THEN ConnectTail(env)
    ELSE [r |-> Decode(c.op, env), conn |-> conn /\ SuccessTrue(env)]

\* What the caller of sendRequest does with its result.
After(c, env, conn) ==
    IF c.op = "connect" THEN ConnectTail(env)
    ELSE [r |-> Decode(c.op, env), conn |-> conn]

\* The call c returns (or throws) after sendRequest returned env.
Return(c, env, re, body, conn) ==
    LET a == After(c, env, conn)
    IN  /\ last' = Result(c, a.r, env, re, body)
        /\ connected_' = a.conn
        /\ handshake' = IF c.op # "connect" THEN handshake
                        ELSE IF SuccessTrue(env) THEN "ok" ELSE "failed"

\* sendRequest without its connection check.
NotConnected_never(conn) == FALSE

\* if (!connected_), line 106
NotConnected(conn) == ~conn

\* sendRequest where cancelTwoLegStand does not wait for its reply.
sendRequest_fireAndForget(c, conn) ==
    IF NotConnected(conn)
    THEN /\ Return(c, NotConnectedEnv, 0, NoBody, conn)
         /\ UNCHANGED <<pc, cur, toServer, toClient, nextId>>
    ELSE \/ /\ Return([c EXCEPT !.sends = 1], RequestFailedEnv, 0, NoBody, conn)
            /\ UNCHANGED <<pc, cur, toServer, toClient, nextId>>
         \/ /\ c.op = "cancelTwoLegStand"
            /\ nextId <= MaxSends
            /\ toServer' = Append(toServer, nextId)
            /\ nextId' = nextId + 1
            /\ Return([c EXCEPT !.sends = 1, !.id = nextId], NoEnv, 0, NoBody, conn)
            /\ UNCHANGED <<pc, cur, toClient>>
         \/ /\ c.op # "cancelTwoLegStand"
            /\ nextId <= MaxSends
            /\ toServer' = Append(toServer, nextId)
            /\ nextId' = nextId + 1
            /\ pc' = "recv"
            /\ cur' = [c EXCEPT !.sends = 1, !.id = nextId]
            /\ last' = NoCall
            /\ connected_' = conn
            /\ handshake' = IF c.op = "connect" THEN "pending" ELSE handshake
            /\ UNCHANGED toClient

\* sendRequest, lines 104-118: from its entry to the return of socket_.send,
\* called by c with connected_ = conn.
sendRequest(c, conn) ==
    IF NotConnected(conn)
    THEN /\ Return(c, NotConnectedEnv, 0, NoBody, conn)
         /\ UNCHANGED <<pc, cur, toServer, toClient, nextId>>
    ELSE \/ \* socket_.send throws
            /\ Return([c EXCEPT !.sends = 1], RequestFailedEnv, 0, NoBody, conn)
            /\ UNCHANGED <<pc, cur, toServer, toClient, nextId>>
         \/ \* the frame is queued; the call goes on to socket_.recv
            /\ nextId <= MaxSends
            /\ toServer' = Append(toServer, nextId)
            /\ nextId' = nextId + 1
            /\ pc' = "recv"
            /\ cur' = [c EXCEPT !.sends = 1, !.id = nextId]
            /\ last' = NoCall
            /\ connected_' = conn
            /\ handshake' = IF c.op = "connect" THEN "pending" ELSE handshake
            /\ UNCHANGED toClient

\* A parse error is not caught: the caller gets the discarded document.
ReplyEnvelope_uncaught(bytes) == bytes.doc

\* return json::parse(reply_str), and the catch of its parse_error: lines 123-133
ReplyEnvelope(bytes) ==
    LET p == Parse(bytes)
    IN  IF p.st = "ret" THEN p.val ELSE RequestFailedEnv

\* A receive that gives up waiting: it hands some document to the caller
\* without a frame having arrived.
RecvReply_noWait ==
    /\ pc = "recv"
    /\ \E bytes \in ReplyBodies :
         Return([cur EXCEPT !.recvs = 1], ReplyEnvelope(bytes), 0, bytes, connected_)
    /\ pc' = "idle"
    /\ cur' = NoCur
    /\ UNCHANGED <<client_type_, identity, ctime, conns, toServer, toClient, nextId>>

\* sendRequest, lines 122-125: socket_.recv returns a frame, json::parse reads it.
RecvReply ==
    /\ pc = "recv"
    /\ toClient # <<>>
    /\ \E bytes \in ReplyBodies :
         Return([cur EXCEPT !.recvs = 1], ReplyEnvelope(bytes), Head(toClient).re, bytes,
                connected_)
    /\ toClient' = Tail(toClient)
    /\ pc' = "idle"
    /\ cur' = NoCur
    /\ UNCHANGED <<client_type_, identity, ctime, conns, toServer, nextId>>

\* sendRequest, lines 122, 126-133: socket_.recv throws (EINTR, ETERM) or
\* returns false.
RecvFail ==
    /\ pc = "recv"
    /\ Return([cur EXCEPT !.recvs = 1], RequestFailedEnv, 0, NoBody, connected_)
    /\ pc' = "idle"
    /\ cur' = NoCur
    /\ UNCHANGED <<client_type_, identity, ctime, conns, toServer, toClient, nextId>>

\* The server reads the oldest request and sends its reply.
ServerReply ==
    /\ toServer # <<>>
    /\ toClient' = Append(toClient, [re |-> Head(toServer)])
    /\ toServer' = Tail(toServer)
    /\ UNCHANGED <<client_type_, identity, ctime, connected_, conns, pc, cur, nextId, handshake, last>>

\* A facade method that builds req and calls sendRequest.
Facade(op, args, req) ==
    /\ pc = "idle"
    /\ sendRequest(NewCall(op, args, req), connected_)
    /\ UNCHANGED <<client_type_, identity, ctime, conns>>

----------------------------------------------------------------------------
\* Arguments the caller passes (floats in tenths).

Modes == {"auto", "manual", "sport"}

InitArgs ==
    { [local_ip |-> "192.168.234.2", local_port |-> 43988, dog_ip |-> "192.168.234.1"],
      [local_ip |-> "10.0.0.2", local_port |-> 0, dog_ip |-> "10.0.0.1"] }

MoveArgs == { [vx |-> 10, vy |-> 0, yaw_rate |-> 5], [vx |-> 0, vy |-> -5, yaw_rate |-> 0] }

AttitudeArgs ==
    { [roll_vel |-> 1, pitch_vel |-> 0, yaw_vel |-> -2, height_vel |-> 3],
      [roll_vel |-> 0, pitch_vel |-> 0, yaw_vel |-> 0, height_vel |-> 0] }

TwoLegArgs == { [vx |-> 0, yaw_rate |-> 0], [vx |-> 3, yaw_rate |-> -1] }

----------------------------------------------------------------------------
\* The public methods.

\* connect without its early return.
AlreadyConnected_never == FALSE

\* if (connected_) return true;  line 34
AlreadyConnected == connected_

connect ==
    /\ pc = "idle"
    /\ LET c == NewCall("connect", NoArgs,
                        Param(Cmd("register"), "client_type",
                              JStr(IF client_type_ = "REMOTE_CONTROLLER"
                                   THEN "remote_controller" ELSE "navigation")))
       IN  IF AlreadyConnected
           THEN /\ last' = Result(c, Ret(JBool(TRUE)), NoEnv, 0, NoBody)
                /\ UNCHANGED <<connected_, conns, pc, cur, toServer, toClient, nextId, handshake>>
           ELSE \/ \* socket_.connect throws zmq::error_t
                   /\ connected_' = FALSE
                   /\ last' = Result(c, Ret(JBool(FALSE)), NoEnv, 0, NoBody)
                   /\ UNCHANGED <<conns, pc, cur, toServer, toClient, nextId, handshake>>
                \/ \* socket_.connect adds a connection to tcp_endpoint_
                   /\ conns < MaxConnects
                   /\ conns' = conns + 1
                   /\ sendRequest(c, TRUE)
    /\ UNCHANGED <<client_type_, identity, ctime>>

\* disconnect flips the flag whatever it was.
AfterDisconnect_toggle(conn) == ~conn

\* if (connected_) connected_ = false;  lines 65-68
AfterDisconnect(conn) == IF conn THEN FALSE ELSE conn

disconnect ==
    /\ pc = "idle"
    /\ connected_' = AfterDisconnect(connected_)
    /\ last' = Result(NewCall("disconnect", NoArgs, JNull), Ret(RVoid), NoEnv, 0, NoBody)
    /\ UNCHANGED <<client_type_, identity, ctime, conns, pc, cur, toServer, toClient, nextId, handshake>>

\* ~HighLevelZmqClient: disconnect(), then the members socket_ and context_ are
\* destroyed, which closes the socket with its connections and queued frames.
Destroy ==
    /\ pc = "idle"
    /\ pc' = "gone"
    /\ connected_' = AfterDisconnect(connected_)
    /\ conns' = 0
    /\ toServer' = <<>>
    /\ toClient' = <<>>
    /\ UNCHANGED <<client_type_, identity, ctime, cur, nextId, handshake, last>>

\* setMode without its role check.
NotController_never == FALSE

\* if (client_type_ != ClientType::REMOTE_CONTROLLER), line 82
NotController == client_type_ # "REMOTE_CONTROLLER"

setMode(mode) ==
    LET req == Param(Cmd("setMode"), "mode", JStr(mode))
    IN  IF NotController
        THEN /\ pc = "idle"
             /\ last' = Result(NewCall("setMode", [mode |-> mode], JNull),
                               Ret(JBool(FALSE)), NoEnv, 0, NoBody)
             /\ UNCHANGED <<client_type_, identity, ctime, connected_, conns, pc, cur, toServer, toClient,
                            nextId, handshake>>
        ELSE Facade("setMode", [mode |-> mode], req)

initRobot(a) ==
    Facade("initRobot", a,
           Param(Param(Param(Cmd("initRobot"), "local_ip", JStr(a.local_ip)),
                       "local_port", JNum(a.local_port)),
                 "dog_ip", JStr(a.dog_ip)))

move(a) ==
    Facade("move", a,
           Param(Param(Param(Cmd("move"), "vx", JFlt(a.vx)), "vy", JFlt(a.vy)),
                 "yaw_rate", JFlt(a.yaw_rate)))

attitudeControl(a) ==
    Facade("attitudeControl", a,
           Param(Param(Param(Param(Cmd("attitudeControl"), "roll_vel", JFlt(a.roll_vel)),
                             "pitch_vel", JFlt(a.pitch_vel)),
                       "yaw_vel", JFlt(a.yaw_vel)),
                 "height_vel", JFlt(a.height_vel)))

twoLegStand(a) ==
    Facade("twoLegStand", a,
           Param(Param(Cmd("twoLegStand"), "vx", JFlt(a.vx)), "yaw_rate", JFlt(a.yaw_rate)))

sendHeartbeat == Facade("sendHeartbeat", NoArgs, Cmd("heartbeat"))

getCurrentMode == Facade("getCurrentMode", NoArgs, Cmd("getCurrentMode"))

deinitRobot == Facade("deinitRobot", NoArgs, Cmd("deinitRobot"))

checkConnect == Facade("checkConnect", NoArgs, Cmd("checkConnect"))

standUp == Facade("standUp", NoArgs, Cmd("standUp"))

lieDown == Facade("lieDown", NoArgs, Cmd("lieDown"))

passive == Facade("passive", NoArgs, Cmd("passive"))

jump == Facade("jump", NoArgs, Cmd("jump"))

frontJump == Facade("frontJump", NoArgs, Cmd("frontJump"))

backflip == Facade("backflip", NoArgs, Cmd("backflip"))

shakeHand == Facade("shakeHand", NoArgs, Cmd("shakeHand"))

cancelTwoLegStand == Facade("cancelTwoLegStand", NoArgs, Cmd("cancelTwoLegStand"))

getQuaternion == Facade("getQuaternion", NoArgs, Cmd("getQuaternion"))

getRPY == Facade("getRPY", NoArgs, Cmd("getRPY"))

getBodyAcc == Facade("getBodyAcc", NoArgs, Cmd("getBodyAcc"))

getBodyGyro == Facade("getBodyGyro", NoArgs, Cmd("getBodyGyro"))

getPosition == Facade("getPosition", NoArgs, Cmd("getPosition"))

getWorldVelocity == Facade("getWorldVelocity", NoArgs, Cmd("getWorldVelocity"))

getBodyVelocity == Facade("getBodyVelocity", NoArgs, Cmd("getBodyVelocity"))

getLegAbadJoint == Facade("getLegAbadJoint", NoArgs, Cmd("getLegAbadJoint"))

getLegHipJoint == Facade("getLegHipJoint", NoArgs, Cmd("getLegHipJoint"))

getLegKneeJoint == Facade("getLegKneeJoint", NoArgs, Cmd("getLegKneeJoint"))

getLegAbadJointVel == Facade("getLegAbadJointVel", NoArgs, Cmd("getLegAbadJointVel"))

getLegHipJointVel == Facade("getLegHipJointVel", NoArgs, Cmd("getLegHipJointVel"))

getLegKneeJointVel == Facade("getLegKneeJointVel", NoArgs, Cmd("getLegKneeJointVel"))

getLegAbadJointTorque == Facade("getLegAbadJointTorque", NoArgs, Cmd("getLegAbadJointTorque"))

getLegHipJointTorque == Facade("getLegHipJointTorque", NoArgs, Cmd("getLegHipJointTorque"))

getLegKneeJointTorque == Facade("getLegKneeJointTorque", NoArgs, Cmd("getLegKneeJointTorque"))

getCurrentCtrlmode == Facade("getCurrentCtrlmode", NoArgs, Cmd("getCurrentCtrlmode"))

getBatteryPower == Facade("getBatteryPower", NoArgs, Cmd("getBatteryPower"))

----------------------------------------------------------------------------
\* Construction.

\* enum class ClientType
ClientType == {"REMOTE_CONTROLLER", "NAVIGATION"}

\* Values of steady_clock::now().time_since_epoch().count() at construction.
Timestamps == {100, 105}

\* The clients the process constructs, one of each role, one after the other;
\* a behaviour follows one of them.
Clients ==
    { [role |-> "REMOTE_CONTROLLER", at |-> 100], [role |-> "NAVIGATION", at |-> 105] }

\* One decimal digit as a character.
DigitChar(d) ==
    CASE d = 0 -> "0" [] d = 1 -> "1" [] d = 2 -> "2" [] d = 3 -> "3" [] d = 4 -> "4"
      [] d = 5 -> "5" [] d = 6 -> "6" [] d = 7 -> "7" [] d = 8 -> "8" [] d = 9 -> "9"

\* std::to_string of a count n >= 0
RECURSIVE to_string(_)
to_string(n) == IF n < 10 THEN <<DigitChar(n)>> ELSE to_string(n \div 10) \o <<DigitChar(n % 10)>>

\* The identity built from a clock ten times coarser.
Identity_coarse(role, ts) ==
    (IF role = "REMOTE_CONTROLLER" THEN <<"r", "c">> ELSE <<"n", "a", "v">>)
        \o <<"_">> \o to_string(ts \div 10)

\* client_type_str + "_" + std::to_string(now), lines 22-23
Identity(role, ts) ==
    (IF role = "REMOTE_CONTROLLER" THEN <<"r", "c">> ELSE <<"n", "a", "v">>)
        \o <<"_">> \o to_string(ts)

----------------------------------------------------------------------------
\* The client after construction: either role, not connected, nothing sent.

Init ==
    /\ \E c \in Clients : client_type_ = c.role /\ ctime = c.at
    /\ identity = Identity(client_type_, ctime)
    /\ connected_ = FALSE
    /\ conns = 0
    /\ pc = "idle"
    /\ cur = NoCur
    /\ toServer = <<>>
    /\ toClient = <<>>
    /\ nextId = 1
    /\ handshake = "none"
    /\ last = NoCall

Next ==
    \/ connect
    \/ disconnect
    \/ Destroy
    \/ RecvReply
    \/ RecvFail
    \/ ServerReply
    \/ \E mode \in Modes : setMode(mode)
    \/ \E a \in InitArgs : initRobot(a)
    \/ \E a \in MoveArgs : move(a)
    \/ \E a \in AttitudeArgs : attitudeControl(a)
    \/ \E a \in TwoLegArgs : twoLegStand(a)
    \/ sendHeartbeat
    \/ getCurrentMode
    \/ deinitRobot
    \/ checkConnect
    \/ standUp
    \/ lieDown
    \/ passive
    \/ jump
    \/ frontJump
    \/ backflip
    \/ shakeHand
    \/ cancelTwoLegStand
    \/ getQuaternion
    \/ getRPY
    \/ getBodyAcc
    \/ getBodyGyro
    \/ getPosition
    \/ getWorldVelocity
    \/ getBodyVelocity
    \/ getLegAbadJoint
    \/ getLegHipJoint
    \/ getLegKneeJoint
    \/ getLegAbadJointVel
    \/ getLegHipJointVel
    \/ getLegKneeJointVel
    \/ getLegAbadJointTorque
    \/ getLegHipJointTorque
    \/ getLegKneeJointTorque
    \/ getCurrentCtrlmode
    \/ getBatteryPower

Spec == Init /\ [][Next]_vars

\* The program with a server that answers every request it has received, and
\* a blocking socket_.recv (no ZMQ_RCVTIMEO is set) that returns once a frame
\* is there to be read.
SpecLive == Init /\ [][Next]_vars /\ WF_vars(ServerReply) /\ WF_vars(RecvReply)

----------------------------------------------------------------------------
\* Properties.

\* A call has completed and no other is in progress.
Completed(ops) == pc = "idle" /\ last.op \in ops

\* The completed call went through sendRequest on a connected session and the
\* transport or the parse failed: send threw, recv threw or returned false, or
\* the frame read is no json text.
TransportFailed ==
    /\ last.connBefore
    /\ last.sends = 1
    /\ \/ last.id = 0
       \/ last.recvs = 1 /\ last.re = 0
       \/ last.re # 0 /\ ~last.body.valid

\* The default the operation catalog documents for each operation.
DocLen(op) == IF op \in TripleOps THEN 3 ELSE 4

Zeros(n) == [i \in 1..n |-> 0]

DocDefault(op) ==
    IF op \in SuccessOps \cup {"checkConnect"} THEN JBool(FALSE)
    ELSE IF op = "getCurrentMode" THEN JStr("auto")
    ELSE IF op \in ResultOps \cup ValueOps THEN RU32(0)
    ELSE IF op \in VectorOps THEN RVec(Zeros(DocLen(op)))
    ELSE RVoid

\* The catalog's defaults, with the identity quaternion (0, 0, 0, 1) for getQuaternion.
CodeDefault(op) ==
    IF op = "getQuaternion" THEN RVec(<<0, 0, 0, 10>>) ELSE DocDefault(op)

\* C1: every facade method is total: whatever the connection state, the
\* transport outcome and the reply body, the call returns a value and no
\* exception reaches the caller.
C1_FacadeTotal == Completed(FacadeOps) => last.st = "ret"

\* C2: a facade call made while Disconnected gets the envelope {success:false,
\* message:"Not connected to service"} from sendRequest (when it calls it) and
\* performs no transport send and no transport receive.
C2_NotConnectedNoIO ==
    (Completed(FacadeOps) /\ ~last.connBefore) =>
        /\ last.env \in {NotConnectedEnv, NoEnv}
        /\ last.env = NoEnv => (last.op = "setMode" /\ client_type_ = "NAVIGATION")
        /\ last.sends = 0 /\ last.recvs = 0 /\ last.id = 0 /\ last.re = 0

C2_Witness ==
    /\ Completed(FacadeOps) /\ ~last.connBefore /\ last.env = NotConnectedEnv
    /\ conns > 0 /\ toClient # <<>>

\* C3 as stated: on a Connected session a failing send, a failing receive or a
\* reply that is no json makes sendRequest return {success:false,
\* message:"Request failed"} and the facade call return its documented default.
C3_RequestFailedDocDefault ==
    (Completed(FacadeOps) /\ TransportFailed) =>
        /\ last.env = RequestFailedEnv
        /\ last.st = "ret"
        /\ last.val = DocDefault(last.op)

\* C3 amended: the same, the default of getQuaternion being the identity
\* quaternion (0, 0, 0, 1) and not the zero vector.
C3_RequestFailedDefault ==
    (Completed(FacadeOps) /\ TransportFailed) =>
        /\ last.env = RequestFailedEnv
        /\ last.st = "ret"
        /\ last.val = CodeDefault(last.op)

C3_Witness ==
    /\ Completed(FacadeOps) /\ TransportFailed
    /\ last.re # 0 /\ ~last.body.valid /\ last.op = "getQuaternion"

\* C4: connect() on a Disconnected session whose transport connect throws or
\* whose registration reply does not carry success=true returns false, leaves
\* the session Disconnected and has sent at most one register request.
C4_ConnectFailure ==
    (Completed({"connect"}) /\ ~last.connBefore /\ ~SuccessTrue(last.env)) =>
        /\ last.st = "ret"
        /\ last.val = JBool(FALSE)
        /\ ~connected_
        /\ last.sends <= 1

\* The register envelope of a client of the given role.
RegisterEnvelope(role) ==
    JObj([command |-> JStr("register"),
          params |-> JObj([client_type |->
              JStr(IF role = "REMOTE_CONTROLLER" THEN "remote_controller" ELSE "navigation")])])

\* C5: registration gates usability: the one message connect() sends on a
\* Disconnected session is the register envelope of the client's role, and
\* with no call in progress isConnected() is true only if the most recent
\* registration handshake read a reply with success=true.
C5_RegistrationGates ==
    /\ (cur.op = "connect" => cur.sends = 1 /\ cur.req = RegisterEnvelope(client_type_))
    /\ (Completed({"connect"}) /\ last.sends > 0 =>
            last.sends = 1 /\ last.req = RegisterEnvelope(client_type_))
    /\ (pc = "idle" /\ connected_ => handshake = "ok")

\* C6: after connect() returns true isConnected() is true; after disconnect()
\* returns isConnected() is false from either starting state; a disconnect()
\* that follows a disconnect() changes nothing of the client and does no I/O.
C6_Lifecycle ==
    [][ /\ (pc' = "idle" /\ last'.op = "connect" /\ last'.st = "ret" /\ last'.val = JBool(TRUE))
            => connected_'
        /\ disconnect => ~connected_'
        /\ (Completed({"disconnect"}) /\ disconnect)
            => UNCHANGED <<client_type_, identity, ctime, connected_, conns, pc, cur, toServer, toClient,
                           nextId, handshake>>
      ]_vars

C6_Witness == Completed({"disconnect"}) /\ ~last.connBefore /\ conns > 0 /\ handshake = "ok"

\* C7: connect() on a Connected session returns true, opens no connection,
\* sends and receives nothing and leaves the connection state as it was.
C7_ConnectNoOp ==
    [][ (connected_ /\ connect) =>
            /\ last'.st = "ret" /\ last'.val = JBool(TRUE)
            /\ last'.sends = 0 /\ last'.recvs = 0
            /\ UNCHANGED <<client_type_, identity, ctime, connected_, conns, pc, cur, toServer, toClient,
                           nextId, handshake>>
      ]_vars

C7_Witness == Completed({"connect"}) /\ last.connBefore /\ connected_ /\ toClient # <<>>

\* C8: setMode on a Navigator returns false and does no transport send or
\* receive, in any connection state and for any mode; only a Controller ever
\* sends a setMode request.
C8_SetModeControllerOnly ==
    /\ (Completed({"setMode"}) /\ client_type_ = "NAVIGATION") =>
            /\ last.st = "ret" /\ last.val = JBool(FALSE)
            /\ last.sends = 0 /\ last.recvs = 0 /\ last.id = 0 /\ last.re = 0
    /\ (cur.op = "setMode" \/ (last.op = "setMode" /\ last.sends > 0))
            => client_type_ = "REMOTE_CONTROLLER"

C8_Witness ==
    Completed({"setMode"}) /\ client_type_ = "NAVIGATION" /\ last.connBefore /\ connected_

\* C9 as stated: a vector query on a Disconnected session returns the all-zero
\* vector of the documented length (4 quaternion, 3 triples, 4 joint arrays).
C9_DisconnectedZeroVector ==
    (Completed(VectorOps) /\ ~last.connBefore) =>
        last.st = "ret" /\ last.val = RVec(Zeros(DocLen(last.op)))

\* C9 amended: a vector query on a Disconnected session returns a vector of the
\* documented length, all zeros except that getQuaternion returns (0, 0, 0, 1).
C9_DisconnectedDefaultVector ==
    (Completed(VectorOps) /\ ~last.connBefore) =>
        /\ last.st = "ret"
        /\ last.val.t = "vec"
        /\ Len(last.val.a) = DocLen(last.op)
        /\ \A i \in 1..Len(last.val.a) :
             last.val.a[i] = (IF last.op = "getQuaternion" /\ i = 4 THEN 10 ELSE 0)

C9_Witness ==
    Completed({"getLegKneeJointTorque"}) /\ ~last.connBefore /\ conns > 0

\* C10: the reply envelope a facade call decodes is the server's reply to that
\* call's own request, never the reply to an earlier request, also after calls
\* that ended in a transport failure with their request sent.  Stated for a
\* session that connected once and whose registration read success=true, so
\* that every earlier request but the register is the request of a facade call.
C10_ReplyMatchesRequest ==
    (Completed(FacadeOps) /\ conns = 1 /\ handshake = "ok" /\ last.re # 0 /\ last.body.valid)
        => last.re = last.id

\* Requests sent on the transport whose reply the client has not received.
Outstanding == Len(toServer) + Len(toClient)

\* C11: in every reachable state the number of requests sent on the transport
\* whose reply the client has not received is at most one.
C11_OneOutstanding == Outstanding <= 1

\* The reply field a numeric operation reads.
NumericField(op) == IF op \in ValueOps THEN "value" ELSE "result"

\* C12: a numeric operation that read a reply returns the reply's "result"
\* field ("value" for getCurrentCtrlmode and getBatteryPower) when the reply
\* has one and 0 when it has none, whatever the reply's "success" field.
C12_NumericResult ==
    (Completed(ResultOps \cup ValueOps) /\ last.re # 0 /\ last.body.valid) =>
        LET f == NumericField(last.op)
            d == last.body.doc
        IN  /\ last.st = "ret"
            /\ ~Contains(d, f) => last.val = RU32(0)
            /\ (Contains(d, f) /\ d.o[f].t = "num") => last.val = RU32(d.o[f].n)

\* The part of C12 that the code satisfies: replies that are json objects
\* whose field is a number or is absent.
C12_ObjectReplies ==
    (Completed(ResultOps \cup ValueOps) /\ last.re # 0 /\ last.body.valid
        /\ last.body.doc.t = "obj") =>
        LET f == NumericField(last.op)
            d == last.body.doc
        IN  /\ ~Contains(d, f) => (last.st = "ret" /\ last.val = RU32(0))
            /\ (Contains(d, f) /\ d.o[f].t = "num") =>
                   (last.st = "ret" /\ last.val = RU32(d.o[f].n))

\* C13: disconnect() releases the transport connection: after disconnect()
\* returns, and after the client is destroyed, the client holds no open
\* connection to the endpoint, so that the client never holds more than the
\* one connection a connect() opened.
C13_DisconnectReleases ==
    /\ Completed({"disconnect"}) => conns = 0
    /\ pc = "gone" => conns = 0
    /\ conns <= 1

\* C14: every vector query returns a vector of its documented fixed length
\* (4 quaternion, 3 triples, 4 joint arrays) for every reply the server can
\* send, whatever the length of the reply's "values" array.  Stated of the
\* calls that return: every vector returned has the documented length.
C14_FixedLength ==
    (Completed(VectorOps) /\ last.st = "ret") =>
        /\ last.val.t = "vec"
        /\ Len(last.val.a) = DocLen(last.op)

\* The name of each operation in the operation catalog: the method
\* sendHeartbeat is the catalog's operation heartbeat.
CatalogName(op) == IF op = "sendHeartbeat" THEN "heartbeat" ELSE op

\* The json value of the argument v passed for parameter k: strings for mode
\* and the addresses, an integer for the port, floats for the rest.
ArgJson(k, v) ==
    IF k \in {"mode", "local_ip", "dog_ip"} THEN JStr(v)
    ELSE IF k = "local_port" THEN JNum(v)
    ELSE JFlt(v)

\* The envelope of call c has the documented shape.
EnvelopeShape(c) ==
    LET r == c.req
    IN  /\ r.t = "obj"
        /\ "command" \in DOMAIN r.o
        /\ r.o["command"] = JStr(CatalogName(c.op))
        /\ IF "none" \in DOMAIN c.args
           THEN DOMAIN r.o = {"command"}
           ELSE /\ DOMAIN r.o = {"command", "params"}
                /\ r.o["params"].t = "obj"
                /\ DOMAIN r.o["params"].o = DOMAIN c.args
                /\ \A k \in DOMAIN c.args : r.o["params"].o[k] = ArgJson(k, c.args[k])

\* C15: every facade operation that sends a request sends an envelope whose
\* "command" is the operation's catalog name, with no "params" key when the
\* operation has no arguments and with "params" holding exactly the named
\* arguments and the values passed when it has.
C15_EnvelopeShape ==
    /\ (pc = "recv" /\ cur.op \in FacadeOps) => EnvelopeShape(cur)
    /\ (Completed(FacadeOps) /\ last.sends > 0) => EnvelopeShape(last)

\* move(1.0, 0.0, 0.5) has sent {"command":"move","params":{"vx":1.0,"vy":0.0,"yaw_rate":0.5}}.
C15_Witness ==
    /\ pc = "recv"
    /\ cur.op = "move"
    /\ cur.args = [vx |-> 10, vy |-> 0, yaw_rate |-> 5]
    /\ cur.req = JObj([command |-> JStr("move"),
                       params |-> JObj([vx |-> JFlt(10), vy |-> JFlt(0), yaw_rate |-> JFlt(5)])])

\* C16: the identity is "<role_tag>_<timestamp>" with role_tag rc for a
\* Controller and nav for a Navigator, no operation changes it, and a client
\* constructed at another timestamp, of either role, has another identity.
C16_Identity ==
    /\ [](/\ identity = (IF client_type_ = "REMOTE_CONTROLLER" THEN <<"r", "c", "_">>
                         ELSE <<"n", "a", "v", "_">>) \o to_string(ctime)
          /\ \A role \in ClientType : \A ts \in Timestamps :
                 ts # ctime => Identity(role, ts) # identity)
    /\ [][identity' = identity]_vars

\* A Navigator built at 105 has reconnected and disconnected.
C16_Witness ==
    /\ Completed({"disconnect"}) /\ conns = 2
    /\ identity = <<"n", "a", "v", "_", "1", "0", "5">>

\* C17: no facade operation changes connected_: a facade call leaves it as it
\* found it, whether the call ended in a transport failure, a parse failure or
\* a success=false reply, and the facade call that follows one made on a
\* Connected session attempts transport I/O again.
C17_FacadeKeepsConnected ==
    /\ [](/\ Completed(FacadeOps) => connected_ = last.connBefore
          /\ (pc = "recv" /\ cur.op \in FacadeOps) => (connected_ /\ cur.connBefore))
    /\ [][(/\ pc = "idle" /\ Completed(FacadeOps) /\ last.connBefore
           /\ toServer' = toServer /\ pc' = "idle" /\ last'.op \in FacadeOps)
          => (last'.sends = 1 \/ (last'.op = "setMode" /\ NotController))]_vars
    /\ [][(/\ pc = "idle" /\ Completed(FacadeOps) /\ last.connBefore
           /\ pc' = "recv")
          => (cur'.sends = 1 /\ toServer' = Append(toServer, cur'.id))]_vars

\* After connect, a facade call failed and the next one, still on a Connected
\* session, sent its own request and failed too.
C17_Witness ==
    /\ Completed(FacadeOps) /\ conns = 1 /\ handshake = "ok"
    /\ last.connBefore /\ connected_
    /\ last.id = 3 /\ last.recvs = 1 /\ ~SuccessTrue(last.env)

\* A facade call that got past the checks made before the transport is used.
ReachedTransport(c) ==
    /\ c.op \in FacadeOps /\ c.connBefore
    /\ ~(c.op = "setMode" /\ NotController)

\* C18 as stated: every facade call that reaches the transport performs
\* exactly one send followed by exactly one receive before it returns.
\* Stated for the sessions whose registration was accepted, where Connected
\* is beyond question.
C18_OneSendOneReceive ==
    (Completed(FacadeOps) /\ ReachedTransport(last) /\ handshake = "ok") =>
        (last.sends = 1 /\ last.recvs = 1)

\* C18 amended: every facade call that reaches the transport performs exactly
\* one send and, unless that send raises, exactly one receive after it, before
\* it returns; a call whose send raises returns without receiving.
C18_OneSendThenReceive ==
    /\ (Completed(FacadeOps) /\ ReachedTransport(last)) =>
           /\ last.sends = 1
           /\ last.recvs = IF last.id # 0 THEN 1 ELSE 0
    /\ (pc = "recv" /\ cur.op \in FacadeOps) =>
           (ReachedTransport(cur) /\ cur.sends = 1 /\ cur.recvs = 0 /\ cur.id # 0)

\* cancelTwoLegStand sent its request, read the reply to it and returned.
C18_Witness ==
    /\ Completed({"cancelTwoLegStand"}) /\ last.connBefore
    /\ last.sends = 1 /\ last.recvs = 1 /\ last.re = last.id
    /\ last.st = "ret" /\ last.val = RVoid

\* C19: a call whose request was sent returns only after a frame from the
\* server was received (it is taken off the socket) or the transport raised an
\* error (the call gets Request failed); while no frame from the server is
\* there and the transport raises nothing the call stays blocked; and with a
\* server that eventually replies to every request it receives, every facade
\* call and every connect() that is blocked eventually returns.
C19_BlocksUntilReply ==
    /\ [][(pc = "recv" /\ pc' # "recv") =>
             /\ pc' = "idle" /\ last'.op = cur.op /\ last'.id = cur.id /\ last'.recvs = 1
             /\ \/ /\ toClient # <<>> /\ toClient' = Tail(toClient)
                   /\ last'.re = Head(toClient).re /\ last'.re # 0
                \/ /\ toClient' = toClient
                   /\ last'.re = 0 /\ last'.env = RequestFailedEnv]_vars
    /\ [][(pc = "recv" /\ toClient = <<>> /\ toClient' = <<>> /\ last'.env # RequestFailedEnv)
             => (pc' = "recv" /\ cur' = cur)]_vars
    /\ (pc = "recv") ~> (pc = "idle")

\* A facade call has sent its request and is blocked in the receive: the
\* server has the request and has not replied.
C19_Witness ==
    /\ pc = "recv" /\ cur.op \in FacadeOps
    /\ toClient = <<>> /\ toServer = <<cur.id>>

\* C20: a connect() made after an earlier connect() reached the server (the
\* session was disconnected since, or that connect failed at registration)
\* sends a fresh register request, and returns true only if the reply to
\* that new request has success = true.
C20_ReconnectReregisters ==
    (/\ Completed({"connect"}) /\ ~last.connBefore /\ conns >= 2
     /\ last.st = "ret" /\ last.val = JBool(TRUE)) =>
        /\ last.sends = 1 /\ last.id # 0
        /\ last.req = RegisterEnvelope(client_type_)
        /\ last.re = last.id
        /\ SuccessTrue(last.env)

====
